---- MODULE Spec2Model ----
(***************************************************************************)
(* Model of the gnucash-imports importers: tsb-import.py (bank lines read  *)
(* from standard input), stripe-import.py and sumup-import.py (paginated   *)
(* processor feeds), all writing to one GnuCash book through piecash.      *)
(*                                                                         *)
(* Money: the scripts compute Decimal(n)/100 from integer minor units and  *)
(* only add, negate and compare such values, which is exact in Decimal.    *)
(* The model therefore keeps every value in minor units (integers).        *)
(***************************************************************************)
EXTENDS Integers, Sequences, FiniteSets, TLC

VARIABLES
    source,       \* the feed this behaviour reconciles: "tsb", "stripe" or "sumup"
    accounts,     \* the saved book: full names of its accounts
    ledger,       \* the saved book: set of transactions [num, splits]
    log,          \* log records of the current run
    tsbPc,        \* tsb-import.py: "idle", "running", "done", "crashed", "interrupted"
    tsbError,     \* the exception that ended the TSB run, "" when none
    tsbInput,     \* the lines the upstream feed has written to standard input
    tsbPos,       \* number of lines of tsbInput this run has processed
    hashString,   \* the module-level name hashString of tsb-import.py
    importCount,  \* importCount of tsb-import.py
    out,          \* standard output of the current TSB run
    linesRead,    \* number of distinct lines the feed has produced so far
    ledger0,      \* the ledger when the first run over tsbInput started
    attempts,     \* number of runs started over tsbInput
    doneBefore,   \* positions of tsbInput committed by earlier runs over it
    doneNow,      \* positions of tsbInput committed by the current run
    now,          \* the wall clock, in units of twelve hours
    pending,      \* Transactions created in the open book's session, not yet saved
    cardPc,       \* stripe/sumup-import.py: "idle", "loop", "done", "empty", "crashed"
    cardError,    \* the exception that ended the card run, "" when none
    cardPage,     \* the fetched transactions, in the order the loop visits them
    cardPos,      \* number of transactions of cardPage the loop has visited
    lastRun,      \* imports.cfg: last_run of the source's section
    failedBuilt,  \* ids of the transactions a run built an entry for and then failed
    endDate,      \* vat-report.py, wiki-report.py: the enddate argument, as a date
    reportPc,     \* the reports: "idle", "vat" or "wiki" (the report that ran last)
    reportOut,    \* what the last report computed from the book
    reportLastRun \* imports.cfg: last_run of the last report's section

tsbVars == <<tsbPc, tsbError, tsbInput, tsbPos, hashString, importCount, out,
             linesRead, ledger0, attempts, doneBefore, doneNow>>

cardVars == <<now, pending, cardPc, cardError, cardPage, cardPos, lastRun, failedBuilt>>

reportVars == <<endDate, reportPc, reportOut, reportLastRun>>

vars == <<source, accounts, ledger, log, tsbVars, cardVars, reportVars>>

----------------------------------------------------------------------------
(* Bounds of the model *)

\* Total number of lines the bank feed produces over all runs.
MaxLines == 3

\* Number of runs over one bank input (the first run and its re-runs).
MaxAttempts == 2

\* The last instant of the wall clock.
MaxTime == 4

\* The processors' page limit (limit=1000 in both scripts), scaled down.
PageLimit == 3

----------------------------------------------------------------------------
(* The book's accounts *)

TsbAccountName == "Assets:Current Assets:TSB Account"
G456AccountName == "Expenses:Bizspace Rent:G4,5,6"
ElectricAccountName == "Expenses:Utilities:Electric"
IntrestAccountName == "Expenses:Member Loan Repayments:Interest Payments"
F6AccountName == "Expenses:Bizspace Rent:F6"
LoanAccountName == "Liabilities:Membership Loan Payable"
StripeAccountName == "Assets:Current Assets:Stripe"
SumUpAccountName == "Assets:Current Assets:SumUp"
FeeExpenseAccountName == "Expenses:Bank Service Charge"
MiscellaneousExpenseAccountName == "Expenses:Miscellaneous"
SnackspaceIncomeAccountName == "Income:Snackspace"
DonationsIncomeAccountName == "Income:Donations"

\* An account the book holds that no importer names in its code.
MembershipAccountName == "Income:Membership"

\* A path the feed may name that the book does not hold.
MissingAccountName == "Income:No Such Account"

BookAccounts ==
    {TsbAccountName, G456AccountName, ElectricAccountName, IntrestAccountName,
     F6AccountName, LoanAccountName, StripeAccountName, SumUpAccountName,
     FeeExpenseAccountName, MiscellaneousExpenseAccountName,
     SnackspaceIncomeAccountName, DonationsIncomeAccountName, MembershipAccountName}

\* book.accounts(fullname=...) raises KeyError when the path is not in the book
AccountFound(name) == name \in accounts

\* imports.cfg: [GNUCash] f6_rent and g456_rent, in minor units
f6Rent == 1000
g456Rent == 1500

\* timedelta(days=1), in the clock's units of twelve hours
OneDay == 2

----------------------------------------------------------------------------
(* Text: str.format of an int, and the key of a bank line *)

Digit(d) ==
    CASE d = 0 -> "0" [] d = 1 -> "1" [] d = 2 -> "2" [] d = 3 -> "3" [] d = 4 -> "4"
      [] d = 5 -> "5" [] d = 6 -> "6" [] d = 7 -> "7" [] d = 8 -> "8" [] d = 9 -> "9"

RECURSIVE NatToStr(_)
NatToStr(n) == IF n < 10 THEN Digit(n) ELSE NatToStr(n \div 10) \o Digit(n % 10)

\* "{}".format(n) for an int n
IntToStr(n) == IF n < 0 THEN "-" \o NatToStr(0 - n) ELSE NatToStr(n)

\* Variant of HashStringOf that also formats the account hint; C11 must fail
\* on it.
HashStringOfWithAccount(t) ==
    t.date \o ":" \o t.description \o ";" \o IntToStr(t.amount) \o ";" \o t.transferAccount

\* hashString = "{}:{};{}".format(date, description, amount)
HashStringOf(t) == t.date \o ":" \o t.description \o ";" \o IntToStr(t.amount)

\* hashlib.sha256(s.encode()).hexdigest(): modelled as collision free, so two
\* keys are equal exactly when the hashed strings are equal.
Sha256Hex(s) == "sha256(" \o s \o ")"

\* The value of hashString before its first assignment (the name is unbound).
Unbound == "<unbound>"

----------------------------------------------------------------------------
(* Split allocation of tsb-import.py *)

Split(account, value) == [account |-> account, value |-> value]

RECURSIVE SumValues(_)
SumValues(splits) ==
    IF splits = <<>> THEN 0 ELSE Head(splits).value + SumValues(Tail(splits))

\* the rent pre-split condition
IsRentPreSplit(t) ==
    /\ t.transferAccount = F6AccountName
    /\ (-1) * t.amount > f6Rent + g456Rent

IsLoanRepayment(t) == t.transferAccount = LoanAccountName

\* the if/elif chain over transaction['amount'] of the loan repayment branch
LoanTableHit(a) == a = -2417 \/ a = -9667 \/ a = -4833 \/ a = 1 - 12083

\* Variant of payableAmount that keeps the sign of an unmatched amount; C8
\* must fail on it.
payableAmountUnsigned(a) ==
    IF a = -2417 THEN 2083
    ELSE IF a = -9667 THEN 8333
    ELSE IF a = -4833 THEN 4167
    ELSE IF a = 1 - 12083 THEN 10417
    ELSE a

payableAmount(a) ==
    IF a = -2417 THEN 2083
    ELSE IF a = -9667 THEN 8333
    ELSE IF a = -4833 THEN 4167
    ELSE IF a = 1 - 12083 THEN 10417
    ELSE (-1) * a

intrestAmount(a) ==
    IF a = -2417 THEN 334
    ELSE IF a = -9667 THEN 1334
    ELSE IF a = -4833 THEN 666
    ELSE IF a = 1 - 12083 THEN 1666
    ELSE 0

\* Variant of RentSplits whose electric split keeps the sign of the residual;
\* C9 must fail on it.
RentSplitsResidualSign(t) ==
    << Split(TsbAccountName, t.amount),
       Split(t.transferAccount, f6Rent),
       Split(G456AccountName, g456Rent),
       Split(ElectricAccountName, t.amount + f6Rent + g456Rent) >>

RentSplits(t) ==
    << Split(TsbAccountName, t.amount),
       Split(t.transferAccount, f6Rent),
       Split(G456AccountName, g456Rent),
       Split(ElectricAccountName, (-1) * (t.amount + f6Rent + g456Rent)) >>

LoanSplits(t) ==
    << Split(TsbAccountName, t.amount),
       Split(t.transferAccount, payableAmount(t.amount)),
       Split(IntrestAccountName, intrestAmount(t.amount)) >>

NormalSplits(t) ==
    << Split(TsbAccountName, t.amount),
       Split(t.transferAccount, (-1) * t.amount) >>

TsbSplits(t) ==
    IF IsRentPreSplit(t) THEN RentSplits(t)
    ELSE IF IsLoanRepayment(t) THEN LoanSplits(t)
    ELSE NormalSplits(t)

----------------------------------------------------------------------------
(* The ledger store (piecash) as the importers use it *)

Entry(num, splits) == [num |-> num, splits |-> splits]

\* Variant of Recorded that never finds a transaction; C5 must fail on it.
RecordedNever(book, key) == FALSE

\* book.transactions.get(num=key) returns a transaction, else raises KeyError
Recorded(book, key) == \E e \in book : e.num = key

\* piecash validates a new Transaction when the session is flushed by
\* book.save(): a value imbalance raises GncImbalanceError, which no importer
\* catches, and nothing of the flush is written.
Balanced(splits) == SumValues(splits) = 0

----------------------------------------------------------------------------
(* tsb-import.py: one iteration of `for line in sys.stdin` *)

LogRec(level, msg, arg) == [level |-> level, msg |-> msg, arg |-> arg]

\* a status string printed to standard output
OutRec(msg, arg) == [msg |-> msg, arg |-> arg]

\* json.dumps(transaction) of the "Got Transaction to import" record
JsonOf(t) ==
    t.date \o "," \o t.description \o "," \o IntToStr(t.amount) \o "," \o t.transferAccount

GotLog(t) == LogRec("INFO", "Got Transaction to import", JsonOf(t))

\* The iteration's result: the book, the two module-level names it assigns, what
\* it printed and logged, and the uncaught exception ("" when it ran through).
LineResult(book, hs, cnt, printed, logged, error) ==
    [book |-> book, hashString |-> hs, importCount |-> cnt,
     out |-> printed, log |-> logged, error |-> error]

\* except KeyError: the account lookup failed. The print formats hashString,
\* which is bound only once an earlier line of this run reached the else branch.
UnresolvedLine(book, hs, cnt, t) ==
    LET warn == LogRec("WARNING", "Unable to find Account", t.transferAccount)
    IN  IF hs = Unbound
        THEN LineResult(book, hs, cnt, <<>>, <<GotLog(t), warn>>, "NameError")
        ELSE LineResult(book, hs, cnt,
                        <<OutRec("Transaction not imported: Unable to find Account", hs)>>,
                        <<GotLog(t), warn>>, "")

\* Variant of SkippedLine that counts the skipped line; C30 must fail on it.
SkippedLineCounting(book, cnt, t) ==
    LET hs == HashStringOf(t)
    IN  LineResult(book, hs, cnt + 1,
                   <<OutRec("Skipped already recorded", hs)>>,
                   <<GotLog(t),
                     LogRec("INFO", "Skipped already recorded", hs \o " " \o Sha256Hex(hs))>>,
                   "")

\* the dedup check found the key
SkippedLine(book, cnt, t) ==
    LET hs == HashStringOf(t)
    IN  LineResult(book, hs, cnt,
                   <<OutRec("Skipped already recorded", hs)>>,
                   <<GotLog(t),
                     LogRec("INFO", "Skipped already recorded", hs \o " " \o Sha256Hex(hs))>>,
                   "")

\* the loan branch warns when no table amount matched
AllocationLog(t) ==
    IF ~IsRentPreSplit(t) /\ IsLoanRepayment(t) /\ ~LoanTableHit(t.amount)
    THEN <<LogRec("WARNING", "Unmatched loan repayment amount", "")>>
    ELSE <<>>

\* Variant of CommitLine that writes the new entry over the book; C21 must fail
\* on it.
CommitLineOverwriting(book, cnt, t) ==
    LET hs == HashStringOf(t)
    IN  LineResult({Entry(Sha256Hex(hs), TsbSplits(t))}, hs, cnt + 1,
                   <<OutRec("Imported, Total count", IntToStr(cnt + 1))>>,
                   <<GotLog(t), LogRec("INFO", "Imported, Total count", IntToStr(cnt + 1))>>,
                   "")

\* Transaction(...) then book.save(): a balanced entry is written and counted,
\* an unbalanced one makes book.save() raise and nothing is written.
CommitLine(book, cnt, t) ==
    LET hs == HashStringOf(t)
        splits == TsbSplits(t)
    IN  IF Balanced(splits)
        THEN LineResult(book \cup {Entry(Sha256Hex(hs), splits)}, hs, cnt + 1,
                        <<OutRec("Imported, Total count", IntToStr(cnt + 1))>>,
                        <<GotLog(t)>> \o AllocationLog(t)
                          \o <<LogRec("INFO", "Imported, Total count", IntToStr(cnt + 1))>>,
                        "")
        ELSE LineResult(book, hs, cnt, <<>>, <<GotLog(t)>> \o AllocationLog(t),
                        "GncImbalanceError")

\* Variant of ResolvedLine without the dedup check; C1 must fail on it.
ResolvedLineNoDedup(book, cnt, t) == CommitLine(book, cnt, t)

ResolvedLine(book, cnt, t) ==
    IF Recorded(book, Sha256Hex(HashStringOf(t)))
    THEN SkippedLine(book, cnt, t)
    ELSE CommitLine(book, cnt, t)

\* Variant of ProcessLine without the account lookup; C14 must fail on it.
ProcessLineNoLookup(book, hs, cnt, t) == ResolvedLine(book, cnt, t)

ProcessLine(book, hs, cnt, t) ==
    IF AccountFound(t.transferAccount)
    THEN ResolvedLine(book, cnt, t)
    ELSE UnresolvedLine(book, hs, cnt, t)

----------------------------------------------------------------------------
(* The bank feed *)

\* dates are ISO-8601 strings isoparse accepts; hour-only and hour:minute forms
Dates == {"2020-01-06T10", "2020-01-06T10:30"}
Descriptions == {"30:SHOP", "SHOP"}

Line(date, description, amount, account) ==
    [date |-> date, description |-> description, amount |-> amount,
     transferAccount |-> account]

\* lines that differ in their text, to one resolvable account
TextLines ==
    {Line(d, s, 3904, StripeAccountName) : d \in Dates, s \in Descriptions}

\* lines that differ in the allocation policy they reach
PolicyLines ==
    {Line("2020-01-06T10", "RENT", -5000, F6AccountName),
     Line("2020-01-06T10", "LOAN", -2417, LoanAccountName),
     Line("2020-01-06T10", "LOAN", -12082, LoanAccountName),
     Line("2020-01-06T10", "LOAN", -12083, LoanAccountName)}

\* a line naming an account the book does not hold
UnresolvableLines ==
    {Line("2020-01-06T10", "SHOP", 3904, MissingAccountName),
     Line("2020-01-06T10", "GIFT", 500, MissingAccountName)}

Lines == TextLines \cup PolicyLines \cup UnresolvableLines

----------------------------------------------------------------------------
(* Sequences *)

RECURSIVE Reverse(_)
Reverse(q) == IF q = <<>> THEN <<>> ELSE Append(Reverse(Tail(q)), Head(q))

Take(q, n) == SubSeq(q, 1, IF Len(q) < n THEN Len(q) ELSE n)

----------------------------------------------------------------------------
(* stripe-import.py: one iteration of the loop over the fetched page *)

\* A balance transaction as the API returns it: amount, fee and net in minor
\* units with net = amount - fee; tag is source.metadata.type ("" when the
\* metadata has no 'type' key; for an adjustment, the metadata of the charge
\* that stripe.Charge.retrieve returns); descriptor and suffix are
\* source.statement_descriptor and source.statement_descriptor_suffix (for an
\* adjustment, those of the retrieved charge).
StripeTx(id, created, type, amount, fee, tag, descriptor, suffix) ==
    [id |-> id, created |-> created, type |-> type, amount |-> amount, fee |-> fee,
     net |-> amount - fee, tag |-> tag, descriptor |-> descriptor, suffix |-> suffix]

\* str.upper() on the tags of the model
Upper(s) ==
    CASE s = "snackspace" -> "SNACKSPACE"
      [] s = "Snackspace" -> "SNACKSPACE"
      [] s = "SNACKSPACE" -> "SNACKSPACE"
      [] s = "donation" -> "DONATION"
      [] OTHER -> s

\* charge: which account are we assigning this to
ChargeToAccount(tx) ==
    IF tx.tag # ""
    THEN IF Upper(tx.tag) = "SNACKSPACE" THEN SnackspaceIncomeAccountName
         ELSE DonationsIncomeAccountName
    ELSE IF tx.descriptor = "Snackspace" THEN SnackspaceIncomeAccountName
    ELSE IF tx.suffix = "Snackspace" THEN SnackspaceIncomeAccountName
    ELSE DonationsIncomeAccountName

\* adjustment: negative net to miscellaneous, else by the charge's metadata only
AdjustmentToAccount(tx) ==
    IF tx.net < 0 THEN MiscellaneousExpenseAccountName
    ELSE IF tx.tag # "" /\ Upper(tx.tag) = "SNACKSPACE" THEN SnackspaceIncomeAccountName
    ELSE DonationsIncomeAccountName

\* the adjustment branch calls stripe.Charge.retrieve when net >= 0
NeedsRetrieve(tx) == tx.type = "adjustment" /\ ~(tx.net < 0)

\* amount = Decimal(-1 * stripeTransaction.amount)/100
StripeAmount(tx) == (-1) * tx.amount

ThreeSplits(sourceAccount, toAccount, net, amount, fee) ==
    << Split(sourceAccount, net), Split(toAccount, amount),
       Split(FeeExpenseAccountName, fee) >>

TwoSplits(sourceAccount, toAccount, net, amount) ==
    << Split(sourceAccount, net), Split(toAccount, amount) >>

StripeSplits(tx) ==
    IF tx.type = "charge"
    THEN ThreeSplits(StripeAccountName, ChargeToAccount(tx), tx.net, StripeAmount(tx), tx.fee)
    ELSE IF tx.type = "adjustment"
    THEN ThreeSplits(StripeAccountName, AdjustmentToAccount(tx), tx.net, StripeAmount(tx),
                     tx.fee)
    ELSE TwoSplits(StripeAccountName, MiscellaneousExpenseAccountName, tx.net,
                   StripeAmount(tx))

\* The iteration's result: the session's new transactions, what was logged and
\* the uncaught exception ("" when the iteration ran through).
VisitResult(pend, logged, error) == [pending |-> pend, log |-> logged, error |-> error]

\* Variant of StripeImportable that also books payouts; C20 must fail on it.
StripeImportableWithPayout(tx) == tx.type \in {"charge", "adjustment", "refund", "payout"}

StripeImportable(tx) == tx.type \in {"charge", "adjustment", "refund"}

StripeSavedMsg(tx) ==
    IF tx.type = "charge" THEN "Saved charge"
    ELSE IF tx.type = "adjustment" THEN "Saved adjustment"
    ELSE "Saved refund"

\* retrieved: whether stripe.Charge.retrieve returned (it is called only for an
\* adjustment with net >= 0)
StripeVisitTx(book, pend, tx, retrieved) ==
    IF Recorded(book, tx.id)
    THEN VisitResult(pend, <<LogRec("INFO", "Skipped already recorded", tx.id)>>, "")
    ELSE IF NeedsRetrieve(tx) /\ ~retrieved
    THEN VisitResult(pend, <<>>, "APIConnectionError")
    ELSE IF StripeImportable(tx)
    THEN VisitResult(pend \cup {Entry(tx.id, StripeSplits(tx))},
                     <<LogRec("INFO", StripeSavedMsg(tx), tx.id)>>, "")
    ELSE IF tx.type = "payout"
    THEN VisitResult(pend, <<LogRec("INFO", "Skipped Payout", tx.id)>>, "")
    ELSE VisitResult(pend, <<LogRec("INFO", "Skipped Unknown type", tx.id)>>, "")

----------------------------------------------------------------------------
(* sumup-import.py: one iteration of the loop over the fetched items *)

\* An item of the transaction history with the events of its full transaction:
\* each event has fee_amount and amount (the net), in minor units.
SumUpEvent(gross, fee) == [fee_amount |-> fee, amount |-> gross - fee]

SumUpTx(id, created, status, type, amount, events) ==
    [id |-> id, created |-> created, status |-> status, type |-> type,
     amount |-> amount, events |-> events]

SumUpImportable(tx) == tx.type \in {"PAYMENT", "CHARGE_BACK", "REFUND"}

\* CHARGE_BACK: negative net to miscellaneous, else snackspace
ChargeBackToAccount(net) ==
    IF net < 0 THEN MiscellaneousExpenseAccountName ELSE SnackspaceIncomeAccountName

SumUpSplits(tx) ==
    LET amount == (-1) * tx.amount
        fee == tx.events[1].fee_amount
        net == tx.events[1].amount
    IN  IF tx.type = "PAYMENT"
        THEN ThreeSplits(SumUpAccountName, SnackspaceIncomeAccountName, net, amount, fee)
        ELSE IF tx.type = "CHARGE_BACK"
        THEN ThreeSplits(SumUpAccountName, ChargeBackToAccount(net), net, amount, fee)
        ELSE TwoSplits(SumUpAccountName, MiscellaneousExpenseAccountName, net, amount)

\* The CHARGE_BACK branch logs with "...".foramt(...): str has no such
\* attribute, so the statement raises AttributeError after the Transaction
\* was created in the session.
SumUpSavedLog(tx) ==
    IF tx.type = "PAYMENT" THEN <<LogRec("INFO", "Saved charge", tx.id)>>
    ELSE IF tx.type = "CHARGE_BACK" THEN <<>>
    ELSE <<LogRec("INFO", "Saved refund", tx.id)>>

SumUpSavedError(tx) == IF tx.type = "CHARGE_BACK" THEN "AttributeError" ELSE ""

\* fetched: whether the request for the full transaction returned
SumUpVisitTx(book, pend, tx, fetched) ==
    IF tx.status # "SUCCESSFUL"
    THEN VisitResult(pend, <<LogRec("INFO", "Skipped Failed", tx.id)>>, "")
    ELSE IF Recorded(book, tx.id)
    THEN VisitResult(pend, <<LogRec("INFO", "Skipped already recorded", tx.id)>>, "")
    ELSE IF ~fetched
    THEN VisitResult(pend, <<>>, "ConnectionError")
    ELSE IF Len(tx.events) = 0
    THEN VisitResult(pend, <<LogRec("WARNING", "Skipped no events for", tx.id)>>, "")
    ELSE IF Len(tx.events) > 1
    THEN VisitResult(pend, <<LogRec("WARNING", "Skipped more than one event for", tx.id)>>, "")
    ELSE IF SumUpImportable(tx)
    THEN VisitResult(pend \cup {Entry(tx.id, SumUpSplits(tx))}, SumUpSavedLog(tx),
                     SumUpSavedError(tx))
    ELSE VisitResult(pend, <<LogRec("INFO", "Skipped Unknown type", tx.id)>>, "")

----------------------------------------------------------------------------
(* The processors *)

\* Stripe's balance transactions in the order they are created
StripeCatalogue ==
    << StripeTx("txn_1", 1, "charge", 1000, 34, "snackspace", "", ""),
       StripeTx("txn_2", 1, "charge", 500, 27, "membership", "Snackspace", ""),
       StripeTx("txn_3", 2, "refund", -1000, 0, "", "", ""),
       StripeTx("txn_4", 2, "payout", -1439, 0, "", "", ""),
       StripeTx("txn_5", 3, "adjustment", -1000, 1500, "", "", ""),
       StripeTx("txn_6", 3, "adjustment", 1000, -1500, "snackspace", "", ""),
       StripeTx("txn_7", 4, "refund", -500, -27, "", "", ""),
       StripeTx("txn_8", 4, "stripe_fee", -200, 0, "", "", "") >>

\* SumUp's transactions in the order they are created
SumUpCatalogue ==
    << SumUpTx("su_1", 1, "SUCCESSFUL", "PAYMENT", 1000, <<SumUpEvent(1000, 17)>>),
       SumUpTx("su_2", 1, "FAILED", "PAYMENT", 300, <<>>),
       SumUpTx("su_3", 2, "SUCCESSFUL", "REFUND", -1000, <<SumUpEvent(-1000, 0)>>),
       SumUpTx("su_4", 2, "SUCCESSFUL", "PAYMENT", 250, <<>>),
       SumUpTx("su_5", 3, "SUCCESSFUL", "PAYMENT", 400,
               <<SumUpEvent(400, 7), SumUpEvent(400, 7)>>),
       SumUpTx("su_6", 3, "SUCCESSFUL", "TRANSFER", 100, <<SumUpEvent(100, 0)>>),
       SumUpTx("su_7", 4, "SUCCESSFUL", "CHARGE_BACK", -400, <<SumUpEvent(-400, 0)>>),
       SumUpTx("su_8", 4, "SUCCESSFUL", "PAYMENT", 600, <<SumUpEvent(600, 10)>>) >>

\* the transactions created after `after` that exist at time t, newest first,
\* cut at the page limit
ListNewestFirst(catalogue, after, t) ==
    LET inWindow(tx) == tx.created > after /\ tx.created <= t
    IN  Take(Reverse(SelectSeq(catalogue, inWindow)), PageLimit)

\* Variant of FetchTimestamp without the margin of one day; C19 must fail on it.
FetchTimestampNoMargin(last) == last

\* fetchTimestamp = (lastRunDate - timedelta(days=1)).timestamp()
FetchTimestamp(last) == last - OneDay

\* BalanceTransaction.list(limit=1000, created={'gt': fetchTimestamp})
StripeList(last, t) == ListNewestFirst(StripeCatalogue, FetchTimestamp(last), t)

\* the history request with order descending, limit 1000 and oldest_time
\* (transactions created at or after oldest_time)
SumUpList(last, t) == ListNewestFirst(SumUpCatalogue, FetchTimestamp(last) - 1, t)

----------------------------------------------------------------------------
(* Dates: datetime.date with the arithmetic the reports use *)

Date(y, m, d) == [y |-> y, m |-> m, d |-> d]

IsLeap(y) == (y % 4 = 0 /\ y % 100 # 0) \/ y % 400 = 0

\* calendar.monthrange(year, month)[1]
DaysInMonth(y, m) ==
    IF m = 2 THEN (IF IsLeap(y) THEN 29 ELSE 28)
    ELSE IF m \in {4, 6, 9, 11} THEN 30
    ELSE 31

\* the order of dates: a <= b
DateLE(a, b) ==
    \/ a.y < b.y
    \/ a.y = b.y /\ a.m < b.m
    \/ a.y = b.y /\ a.m = b.m /\ a.d <= b.d

\* date - timedelta(days=1)
MinusOneDay(a) ==
    IF a.d > 1 THEN Date(a.y, a.m, a.d - 1)
    ELSE IF a.m > 1 THEN Date(a.y, a.m - 1, DaysInMonth(a.y, a.m - 1))
    ELSE Date(a.y - 1, 12, 31)

\* date - relativedelta(years=1): the day is cut to the month's last day
MinusOneYear(a) ==
    Date(a.y - 1, a.m, IF a.d > DaysInMonth(a.y - 1, a.m) THEN DaysInMonth(a.y - 1, a.m)
                       ELSE a.d)

\* date.replace(day=1)
FirstOfMonth(a) == Date(a.y, a.m, 1)

\* endOfMonth = endDate.replace(day=monthrange(endDate.year, endDate.month)[1])
endOfMonth(a) == Date(a.y, a.m, DaysInMonth(a.y, a.m))

\* endOfPerviousMonth = endDate.replace(day=1) - timedelta(days=1)
endOfPerviousMonth(a) == MinusOneDay(FirstOfMonth(a))

\* vatPeriodStart = (endDate - relativedelta(years=1)).replace(day=1) - timedelta(days=1)
vatPeriodStart(a) == MinusOneDay(FirstOfMonth(MinusOneYear(a)))

\* vatPeriodEnd = endOfMonth
vatPeriodEnd(a) == endOfMonth(a)

----------------------------------------------------------------------------
(* The book as the reports read it *)

IncomeAccountName == "Income"
ExpensesAccountName == "Expenses"
RentAccountName == "Expenses:Bizspace Rent"

\* the accounts of the tree that no importer looks up
PlaceholderAccounts == {IncomeAccountName, ExpensesAccountName, RentAccountName}

\* account.parent, "" for an account whose parent the reports never reach
AccountParent(name) ==
    CASE name \in {SnackspaceIncomeAccountName, DonationsIncomeAccountName,
                   MembershipAccountName} -> IncomeAccountName
      [] name \in {FeeExpenseAccountName, MiscellaneousExpenseAccountName,
                   RentAccountName} -> ExpensesAccountName
      [] name \in {F6AccountName, G456AccountName} -> RentAccountName
      [] OTHER -> ""

\* account.children
Children(name) == {a \in accounts : AccountParent(a) = name}

\* acc.type == 'INCOME'
IsIncomeAccount(name) ==
    name \in {IncomeAccountName, SnackspaceIncomeAccountName, DonationsIncomeAccountName,
              MembershipAccountName}

\* the natural sign of an account's balance: income is shown positive
AccountSign(name) == IF IsIncomeAccount(name) THEN -1 ELSE 1

\* a transaction with its post_date, as the reports read it from the book
DatedEntry(num, post_date, splits) ==
    [num |-> num, post_date |-> post_date, splits |-> splits]

RECURSIVE SumOver(_, _)
SumOver(f, keys) ==
    IF keys = {} THEN 0
    ELSE LET k == CHOOSE x \in keys : TRUE IN f[k] + SumOver(f, keys \ {k})

\* the account's own balance at at_date, in its natural sign
OwnBalance(book, name, at_date) ==
    LET posted == {e \in book : DateLE(e.post_date, at_date)}
        own == [e \in posted |->
                   SumValues(SelectSeq(e.splits, LAMBDA sp : sp.account = name))]
    IN  AccountSign(name) * SumOver(own, posted)

\* acc.get_balance(recurse=recurse, at_date=at_date)
RECURSIVE get_balance(_, _, _, _)
get_balance(book, name, recurse, at_date) ==
    IF recurse
    THEN OwnBalance(book, name, at_date)
           + SumOver([c \in Children(name) |-> get_balance(book, c, recurse, at_date)],
                     Children(name))
    ELSE OwnBalance(book, name, at_date)

----------------------------------------------------------------------------
(* vat-report.py and wiki-report.py *)

\* Variant of delta that leaves the recurse flag out of the second balance
\* query; C22 must fail on it.
deltaRecurseDropped(book, name, recurse, end) ==
    get_balance(book, name, recurse, endOfMonth(end))
      - get_balance(book, name, TRUE, endOfPerviousMonth(end))

\* def delta(acc, recurse=True), with the module-level endOfMonth and
\* endOfPerviousMonth of the run whose argument is `end`
delta(book, name, recurse, end) ==
    get_balance(book, name, recurse, endOfMonth(end))
      - get_balance(book, name, recurse, endOfPerviousMonth(end))

\* def delta_for(acc, start, end, recurse=True)
delta_for(book, name, start, end, recurse) ==
    get_balance(book, name, recurse, end) - get_balance(book, name, recurse, start)

PadTwo(n) == IF n < 10 THEN "0" \o NatToStr(n) ELSE NatToStr(n)

PadThree(n) == IF n < 100 THEN "0" \o PadTwo(n) ELSE NatToStr(n)

\* the ',' option of the format specification: digits in groups of three
RECURSIVE Grouped(_)
Grouped(n) ==
    IF n < 1000 THEN NatToStr(n)
    ELSE Grouped(n \div 1000) \o "," \o PadThree(n % 1000)

\* f"{amount:,}" for a Decimal of two places held in minor units
DecimalText(v) ==
    LET a == IF v < 0 THEN 0 - v ELSE v
    IN  (IF v < 0 THEN "-" ELSE "") \o Grouped(a \div 100) \o "." \o PadTwo(a % 100)

\* vat-report.py: formatGBP
formatGBP(v) == "£" \o DecimalText(v)

\* wiki-report.py: formatGBP (the source holds the sign as a doubly encoded text)
wikiFormatGBP(v) == "Â£" \o DecimalText(v)

\* f"{endOfMonth:%Y/%m/%d}"
DateText(a) == NatToStr(a.y) \o "/" \o PadTwo(a.m) \o "/" \o PadTwo(a.d)

\* income_amounts: one column per account of type INCOME
income_amounts(book, end) ==
    [name \in {a \in accounts : IsIncomeAccount(a)} |->
        formatGBP(delta(book, name, FALSE, end))]

\* child_deltas(account)
child_deltas(book, name, end) ==
    [c \in Children(name) |-> wikiFormatGBP(delta(book, c, FALSE, end))]

\* one element of the income and expenses lists of the wiki report
WikiRow(book, name, end) ==
    [amount |-> IF name \in PlaceholderAccounts THEN ""
                ELSE wikiFormatGBP(delta(book, name, FALSE, end)),
     children |-> child_deltas(book, name, end)]

\* vat-report.py: the book is opened read-only, the CSV is written and the
\* report's last_run is set
VatReport ==
    /\ source = "report"
    /\ reportPc' = "vat"
    /\ reportOut' = [Date |-> DateText(endOfMonth(endDate)),
                     income_amounts |-> income_amounts(ledger, endDate)]
    /\ reportLastRun' = now
    /\ UNCHANGED <<source, accounts, ledger, log, tsbVars, cardVars, endDate>>

\* wiki-report.py: the book is opened read-only, the page is rendered from the
\* totals and the per-account deltas, and the report's last_run is set
WikiReport ==
    /\ source = "report"
    /\ reportPc' = "wiki"
    /\ LET totalRevenue == delta(ledger, IncomeAccountName, TRUE, endDate)
           totalExpenses == delta(ledger, ExpensesAccountName, TRUE, endDate)
       IN  reportOut' =
              [totalRevenue |-> wikiFormatGBP(totalRevenue),
               totalExpenses |-> wikiFormatGBP(totalExpenses),
               net |-> wikiFormatGBP(totalRevenue - totalExpenses),
               profitOrLoss |-> IF totalRevenue - totalExpenses > 0 THEN "income"
                                ELSE "loss",
               income |-> [a \in Children(IncomeAccountName) |->
                              WikiRow(ledger, a, endDate)],
               expenses |-> [a \in Children(ExpensesAccountName) |->
                                WikiRow(ledger, a, endDate)]]
    /\ reportLastRun' = now
    /\ UNCHANGED <<source, accounts, ledger, log, tsbVars, cardVars, endDate>>

----------------------------------------------------------------------------
(* tsb-import.py as a process *)

TsbIdle == tsbPc # "running"

\* a run over a new input: the module-level names are set up, nothing is read
TSBStart ==
    /\ source = "tsb"
    /\ TsbIdle
    /\ linesRead < MaxLines
    /\ tsbPc' = "running"
    /\ tsbError' = ""
    /\ tsbInput' = <<>>
    /\ tsbPos' = 0
    /\ hashString' = Unbound
    /\ importCount' = 0
    /\ out' = <<>>
    /\ log' = <<>>
    /\ ledger0' = ledger
    /\ attempts' = 1
    /\ doneBefore' = {}
    /\ doneNow' = {}
    /\ UNCHANGED <<source, accounts, reportVars, ledger, linesRead, cardVars>>

\* after an interrupted run the same input is fed to a new run from its first line
TSBRerun ==
    /\ source = "tsb"
    /\ tsbPc = "interrupted"
    /\ attempts < MaxAttempts
    /\ tsbPc' = "running"
    /\ tsbError' = ""
    /\ tsbPos' = 0
    /\ hashString' = Unbound
    /\ importCount' = 0
    /\ out' = <<>>
    /\ log' = <<>>
    /\ attempts' = attempts + 1
    /\ doneBefore' = doneBefore \cup doneNow
    /\ doneNow' = {}
    /\ UNCHANGED <<source, accounts, reportVars, ledger, tsbInput, linesRead, ledger0, cardVars>>

\* The loop body on line t, the (tsbPos+1)-th line of the input. killed: the
\* process is killed right after book.save() returned, before the count and
\* the status string.
TSBApply(t, killed) ==
    LET r == ProcessLine(ledger, hashString, importCount, t)
    IN  /\ ledger' = r.book
        /\ hashString' = r.hashString
        /\ tsbPos' = tsbPos + 1
        /\ doneBefore' = doneBefore
        /\ doneNow' = IF r.book # ledger THEN doneNow \cup {tsbPos + 1} ELSE doneNow
        /\ IF killed
           THEN /\ tsbPc' = "interrupted"
                /\ UNCHANGED <<importCount, out, log, tsbError>>
           ELSE /\ importCount' = r.importCount
                /\ out' = out \o r.out
                /\ log' = log \o r.log
                /\ tsbError' = r.error
                /\ tsbPc' = IF r.error = "" THEN "running" ELSE "crashed"

\* the kill after book.save() is a case of its own only when the line commits
KillPoints(t) ==
    IF ProcessLine(ledger, hashString, importCount, t).book # ledger
    THEN BOOLEAN ELSE {FALSE}

\* the feed writes a new line and the loop processes it
TSBLine ==
    /\ tsbPc = "running"
    /\ tsbPos = Len(tsbInput)
    /\ linesRead < MaxLines
    /\ \E t \in Lines :
          /\ tsbInput' = Append(tsbInput, t)
          /\ \E killed \in KillPoints(t) : TSBApply(t, killed)
    /\ linesRead' = linesRead + 1
    /\ UNCHANGED <<source, accounts, reportVars, ledger0, attempts, cardVars>>

\* the loop processes a line that an earlier run over this input had read
TSBReplay ==
    /\ tsbPc = "running"
    /\ tsbPos < Len(tsbInput)
    /\ \E killed \in KillPoints(tsbInput[tsbPos + 1]) :
          TSBApply(tsbInput[tsbPos + 1], killed)
    /\ UNCHANGED <<source, accounts, reportVars, tsbInput, linesRead, ledger0, attempts, cardVars>>

\* end of standard input: the with block closes the book
TSBEof ==
    /\ tsbPc = "running"
    /\ tsbPos = Len(tsbInput)
    /\ tsbPc' = "done"
    /\ UNCHANGED <<source, accounts, reportVars, ledger, log, tsbError, tsbInput, tsbPos, hashString, importCount,
                   out, linesRead, ledger0, attempts, doneBefore, doneNow, cardVars>>

\* the process is killed between two lines; a line's Transaction is saved
\* before the next line is read, so nothing saved is lost
TSBInterrupt ==
    /\ tsbPc = "running"
    /\ tsbPos > 0
    /\ tsbPc' = "interrupted"
    /\ UNCHANGED <<source, accounts, reportVars, ledger, log, tsbError, tsbInput, tsbPos, hashString, importCount,
                   out, linesRead, ledger0, attempts, doneBefore, doneNow, cardVars>>

----------------------------------------------------------------------------
(* stripe-import.py and sumup-import.py as processes *)

CardIdle == cardPc # "loop"

\* time passes; the processor creates the catalogue's transactions as it does
Tick ==
    /\ source \in {"stripe", "sumup"}
    /\ now < MaxTime
    /\ now' = now + 1
    /\ UNCHANGED <<source, accounts, reportVars, ledger, log, tsbVars, pending, cardPc, cardError, cardPage,
                   cardPos, lastRun, failedBuilt>>

FetchedLog(page) == <<LogRec("INFO", "Fetched transactions", IntToStr(Len(page)))>>

\* Variant of CardBegin that writes last_run also when the page is empty; C29
\* must fail on it.
CardBeginStampingEmpty(page) ==
    /\ CardIdle
    /\ cardError' = ""
    /\ cardPos' = 0
    /\ pending' = {}
    /\ cardPage' = page
    /\ IF Len(page) = 0
       THEN /\ cardPc' = "empty"
            /\ lastRun' = now
            /\ log' = <<LogRec("INFO", "Fetched transactions", "0"),
                        LogRec("INFO", "No transactions to import", "")>>
       ELSE /\ cardPc' = "loop"
            /\ lastRun' = lastRun
            /\ log' = <<LogRec("INFO", "Fetched transactions", IntToStr(Len(page)))>>
    /\ UNCHANGED <<source, accounts, reportVars, ledger, tsbVars, now, failedBuilt>>

\* the script up to the loop: fetch, exit() on an empty page, open the book
CardBegin(page) ==
    /\ CardIdle
    /\ cardError' = ""
    /\ cardPos' = 0
    /\ pending' = {}
    /\ cardPage' = page
    /\ IF Len(page) = 0
       THEN /\ cardPc' = "empty"
            /\ log' = FetchedLog(page) \o <<LogRec("INFO", "No transactions to import", "")>>
       ELSE /\ cardPc' = "loop"
            /\ log' = FetchedLog(page)
    /\ UNCHANGED <<source, accounts, reportVars, ledger, tsbVars, now, lastRun, failedBuilt>>

\* the loop visits reversed(stripeTransactions.to_dict()['data'])
StripeFetch ==
    /\ source = "stripe"
    /\ CardBegin(Reverse(StripeList(lastRun, now)))

\* the loop visits sumUpTransactions['items'] as returned
SumUpFetch ==
    /\ source = "sumup"
    /\ CardBegin(SumUpList(lastRun, now))

\* the list request raises: the script ends before open_book
CardFetchFail ==
    /\ source \in {"stripe", "sumup"}
    /\ CardIdle
    /\ cardPc' = "crashed"
    /\ cardError' = IF source = "stripe" THEN "APIConnectionError" ELSE "ConnectionError"
    /\ cardPage' = <<>>
    /\ cardPos' = 0
    /\ pending' = {}
    /\ log' = <<>>
    /\ UNCHANGED <<source, accounts, reportVars, ledger, tsbVars, now, lastRun, failedBuilt>>

\* Variant of CardApply that saves the book after every transaction; C25 must
\* fail on it.
CardApplySavingEach(r) ==
    /\ log' = log \o r.log
    /\ cardError' = r.error
    /\ cardPos' = cardPos + 1
    /\ ledger' = ledger \cup r.pending
    /\ pending' = {}
    /\ failedBuilt' = failedBuilt
    /\ cardPc' = IF r.error = "" THEN "loop" ELSE "crashed"
    /\ UNCHANGED <<source, accounts, reportVars, tsbVars, now, cardPage, lastRun>>

\* an uncaught exception leaves the with block: the session is closed unsaved
CardApply(r) ==
    /\ log' = log \o r.log
    /\ cardError' = r.error
    /\ cardPos' = cardPos + 1
    /\ IF r.error = ""
       THEN /\ cardPc' = "loop"
            /\ pending' = r.pending
            /\ failedBuilt' = failedBuilt
       ELSE /\ cardPc' = "crashed"
            /\ pending' = {}
            /\ failedBuilt' = failedBuilt \cup {e.num : e \in r.pending}
    /\ UNCHANGED <<source, accounts, reportVars, ledger, tsbVars, now, cardPage, lastRun>>

StripeVisit ==
    /\ source = "stripe"
    /\ cardPc = "loop"
    /\ cardPos < Len(cardPage)
    /\ LET tx == cardPage[cardPos + 1]
       IN  \E retrieved \in (IF NeedsRetrieve(tx) /\ ~Recorded(ledger, tx.id)
                             THEN BOOLEAN ELSE {TRUE}) :
              CardApply(StripeVisitTx(ledger, pending, tx, retrieved))

SumUpNeedsFetch(tx) == tx.status = "SUCCESSFUL" /\ ~Recorded(ledger, tx.id)

SumUpVisit ==
    /\ source = "sumup"
    /\ cardPc = "loop"
    /\ cardPos < Len(cardPage)
    /\ LET tx == cardPage[cardPos + 1]
       IN  \E fetched \in (IF SumUpNeedsFetch(tx) THEN BOOLEAN ELSE {TRUE}) :
              CardApply(SumUpVisitTx(ledger, pending, tx, fetched))

\* book.save() writes the session's transactions, or raises on an unbalanced one
CanSave(pend) == \A e \in pend : Balanced(e.splits)

\* Variant of CardFinish that writes last_run before book.save() is known to
\* have succeeded; C6 must fail on it.
CardFinishWatermarkFirst ==
    /\ cardPc = "loop"
    /\ cardPos = Len(cardPage)
    /\ pending' = {}
    /\ lastRun' = now
    /\ IF \A e \in pending : SumValues(e.splits) = 0
       THEN /\ ledger' = ledger \cup pending
            /\ cardPc' = "done"
            /\ cardError' = ""
       ELSE /\ ledger' = ledger
            /\ cardPc' = "crashed"
            /\ cardError' = "GncImbalanceError"
    /\ failedBuilt' = failedBuilt
    /\ UNCHANGED <<source, accounts, reportVars, log, tsbVars, now, cardPage, cardPos>>

\* after the loop: save the book, then set last_run to datetime.now() and write
\* the configuration
CardFinish ==
    /\ cardPc = "loop"
    /\ cardPos = Len(cardPage)
    /\ pending' = {}
    /\ IF CanSave(pending)
       THEN /\ ledger' = ledger \cup pending
            /\ lastRun' = now
            /\ cardPc' = "done"
            /\ cardError' = ""
            /\ failedBuilt' = failedBuilt
       ELSE /\ ledger' = ledger
            /\ lastRun' = lastRun
            /\ cardPc' = "crashed"
            /\ cardError' = "GncImbalanceError"
            /\ failedBuilt' = failedBuilt \cup {e.num : e \in pending}
    /\ UNCHANGED <<source, accounts, reportVars, log, tsbVars, now, cardPage, cardPos>>

----------------------------------------------------------------------------
(* The system *)

Sources == {"tsb", "stripe", "sumup"}

\* Nothing has run yet. The importers share only the book, and each looks it
\* up by the keys of its own feed, so a behaviour follows one feed.
\* imports.cfg as installed: last_run of each section is a time before the
\* first run, here one clock unit before the clock's first instant
InstalledLastRun == -1

\* no report has run
ReportIdle ==
    /\ endDate = Date(2024, 3, 15)
    /\ reportPc = "idle"
    /\ reportOut = <<>>
    /\ reportLastRun = 0

InitState ==
    /\ accounts = BookAccounts
    /\ ReportIdle
    /\ ledger = {}
    /\ log = <<>>
    /\ tsbPc = "idle"
    /\ tsbError = ""
    /\ tsbInput = <<>>
    /\ tsbPos = 0
    /\ hashString = Unbound
    /\ importCount = 0
    /\ out = <<>>
    /\ linesRead = 0
    /\ ledger0 = {}
    /\ attempts = 0
    /\ doneBefore = {}
    /\ doneNow = {}
    /\ now = 0
    /\ pending = {}
    /\ cardPc = "idle"
    /\ cardError = ""
    /\ cardPage = <<>>
    /\ cardPos = 0
    /\ lastRun = InstalledLastRun
    /\ failedBuilt = {}

Init ==
    /\ source \in Sources
    /\ InitState

Next ==
    \/ TSBStart
    \/ TSBRerun
    \/ TSBLine
    \/ TSBReplay
    \/ TSBEof
    \/ TSBInterrupt
    \/ Tick
    \/ StripeFetch
    \/ SumUpFetch
    \/ CardFetchFail
    \/ StripeVisit
    \/ SumUpVisit
    \/ CardFinish

Spec == Init /\ [][Next]_vars

----------------------------------------------------------------------------
(* One transaction of any shape: the allocation and routing rules as pure     *)
(* functions of their input. The run starts on a single-transaction input     *)
(* drawn from a wide set and the same loop bodies process it.                 *)

WideAmounts ==
    {-12084, -12083, -12082, -12081, -9667, -4833, -2417, -2416,
     -5000, -2501, -2500, -2499, 0, 1499, 1500, 1501, 3904}

WideAccounts ==
    {F6AccountName, LoanAccountName, MembershipAccountName, StripeAccountName,
     MissingAccountName}

WideLines ==
    {Line("2020-01-06T10", "SHOP", a, acct) : a \in WideAmounts, acct \in WideAccounts}

StripeTypes == {"charge", "adjustment", "refund", "payout", "stripe_fee"}

WideStripe ==
    {StripeTx("txn_w", 1, type, amount, fee, tag, descriptor, suffix) :
        type \in StripeTypes, amount \in {1000, -1000}, fee \in {0, 34, -34},
        tag \in {"", "snackspace", "SNACKSPACE", "donation"},
        descriptor \in {"", "Snackspace", "Other"}, suffix \in {"", "Snackspace"}}

WideSumUp ==
    {SumUpTx("su_w", 1, status, type, amount, events) :
        status \in {"SUCCESSFUL", "FAILED"},
        type \in {"PAYMENT", "CHARGE_BACK", "REFUND", "TRANSFER"},
        amount \in {1000, -1000},
        events \in {<<>>, <<SumUpEvent(1000, 0)>>, <<SumUpEvent(1000, 17)>>,
                    <<SumUpEvent(-1000, 0)>>, <<SumUpEvent(-1000, -17)>>,
                    <<SumUpEvent(1000, 17), SumUpEvent(1000, 17)>>}}

InitAlloc ==
    /\ source \in Sources
    /\ accounts = BookAccounts
    /\ ReportIdle
    /\ ledger = {}
    /\ log = <<>>
    /\ tsbError = ""
    /\ tsbPos = 0
    /\ hashString = Unbound
    /\ importCount = 0
    /\ out = <<>>
    /\ ledger0 = {}
    /\ doneBefore = {}
    /\ doneNow = {}
    /\ now = 1
    /\ pending = {}
    /\ cardError = ""
    /\ cardPos = 0
    /\ lastRun = 0
    /\ failedBuilt = {}
    /\ \/ /\ source = "tsb"
          /\ tsbPc = "running"
          /\ \E first \in TextLines \cup UnresolvableLines, t \in WideLines :
                tsbInput = <<first, t>>
          /\ linesRead = 2
          /\ attempts = 1
          /\ cardPc = "idle"
          /\ cardPage = <<>>
       \/ /\ source = "stripe"
          /\ cardPc = "loop"
          /\ \E tx \in WideStripe : cardPage = <<tx>>
          /\ tsbPc = "idle"
          /\ tsbInput = <<>>
          /\ linesRead = 0
          /\ attempts = 0
       \/ /\ source = "sumup"
          /\ cardPc = "loop"
          /\ \E tx \in WideSumUp : cardPage = <<tx>>
          /\ tsbPc = "idle"
          /\ tsbInput = <<>>
          /\ linesRead = 0
          /\ attempts = 0

NextAlloc ==
    \/ TSBReplay
    \/ TSBEof
    \/ StripeVisit
    \/ SumUpVisit
    \/ CardFinish

SpecAlloc == InitAlloc /\ [][NextAlloc]_vars

----------------------------------------------------------------------------
(* The reports over a book of dated transactions *)

\* A book holds at most this many of the dated transactions below.
MaxReportEntries == 3

IncomeEntry(num, post_date, name, value) ==
    DatedEntry(num, post_date,
               << Split(StripeAccountName, value), Split(name, 0 - value) >>)

\* transactions posted in the month of the report, on the last day of the month
\* before, earlier in the twelve months before, on the day before those twelve
\* months, and after the month of the report
ReportEntries ==
    {IncomeEntry("r1", Date(2024, 3, 10), SnackspaceIncomeAccountName, 1000),
     IncomeEntry("r2", Date(2024, 2, 29), SnackspaceIncomeAccountName, 123456),
     IncomeEntry("r3", Date(2023, 6, 15), DonationsIncomeAccountName, 700),
     IncomeEntry("r4", Date(2023, 2, 28), DonationsIncomeAccountName, 300),
     IncomeEntry("r5", Date(2024, 4, 1), MembershipAccountName, 900),
     IncomeEntry("r6", Date(2024, 3, 5), IncomeAccountName, 200),
     DatedEntry("r7", Date(2024, 3, 20),
                << Split(StripeAccountName, -250),
                   Split(MiscellaneousExpenseAccountName, 250) >>)}

\* the enddate argument: mid month, and the last day of a leap February
EndDates == {Date(2024, 3, 15), Date(2024, 2, 29), Date(2024, 3, 1)}

InitReport ==
    /\ source = "report"
    /\ accounts = BookAccounts \cup PlaceholderAccounts
    /\ ledger \in {b \in SUBSET ReportEntries : Cardinality(b) <= MaxReportEntries}
    /\ endDate \in EndDates
    /\ reportPc = "idle"
    /\ reportOut = <<>>
    /\ reportLastRun = 0
    /\ log = <<>>
    /\ tsbPc = "idle"
    /\ tsbError = ""
    /\ tsbInput = <<>>
    /\ tsbPos = 0
    /\ hashString = Unbound
    /\ importCount = 0
    /\ out = <<>>
    /\ linesRead = 0
    /\ ledger0 = {}
    /\ attempts = 0
    /\ doneBefore = {}
    /\ doneNow = {}
    /\ now = 1
    /\ pending = {}
    /\ cardPc = "idle"
    /\ cardError = ""
    /\ cardPage = <<>>
    /\ cardPos = 0
    /\ lastRun = 0
    /\ failedBuilt = {}

NextReport ==
    \/ VatReport
    \/ WikiReport

SpecReport == InitReport /\ [][NextReport]_vars

----------------------------------------------------------------------------
(* Properties *)

KeyOfLine(t) == Sha256Hex(HashStringOf(t))

KeyIn(book, key) == \E e \in book : e.num = key

EntryOf(book, key) == CHOOSE e \in book : e.num = key

\* the outcomes that record a transaction as not imported
SkipMessages == {"Skipped already recorded", "Skipped Failed", "Unable to find Account"}

\* the step visits the next bank line
TsbVisits == tsbPc = "running" /\ tsbPos' = tsbPos + 1

\* the step visits the next transaction of the fetched page
CardVisits == cardPc = "loop" /\ cardPos' = cardPos + 1

C1_NoDuplicateKey == \A e1, e2 \in ledger : e1.num = e2.num => e1 = e2

C1_TsbStep ==
    (TsbVisits /\ KeyIn(ledger, KeyOfLine(tsbInput'[tsbPos + 1])))
        => /\ ledger' = ledger
           /\ importCount' = importCount
           /\ Len(log') > Len(log)
           /\ log'[Len(log')].msg \in SkipMessages

C1_CardStep ==
    (CardVisits /\ KeyIn(ledger, cardPage[cardPos + 1].id))
        => /\ ledger' = ledger
           /\ pending' = pending
           /\ Len(log') > Len(log)
           /\ log'[Len(log')].msg \in SkipMessages

\* C1: idempotence. In each importer, visiting a transaction whose key is
\* already in the ledger creates no entry (none saved, none pending, no count)
\* and logs a not-imported outcome, and the ledger never holds two entries
\* with one key.
C1_Idempotence == []C1_NoDuplicateKey /\ [][C1_TsbStep /\ C1_CardStep]_vars

\* a later run has visited a bank line whose key an earlier run recorded
C1_Witness ==
    /\ source = "tsb"
    /\ attempts = 1
    /\ ledger0 # {}
    /\ out # <<>>
    /\ out[Len(out)].msg = "Skipped already recorded"
    /\ KeyIn(ledger0, KeyOfLine(tsbInput[tsbPos]))

\* C2: balance invariant. Every split set an importer builds, for a bank line
\* whose account resolves or for a card/POS record, sums to zero.
C2_BalanceInvariant ==
    /\ \A i \in 1..tsbPos :
          AccountFound(tsbInput[i].transferAccount) => Balanced(TsbSplits(tsbInput[i]))
    /\ \A e \in pending : Balanced(e.splits)

\* C3: every committed entry sums to zero, and an unbalanced split set is
\* fatal to its transaction only: it never ends the run.
C3_UnbalancedFatalToTransactionOnly ==
    /\ \A e \in ledger : Balanced(e.splits)
    /\ tsbError # "GncImbalanceError"
    /\ cardError # "GncImbalanceError"

\* C4: partial-failure isolation. A bank line naming an account the book does
\* not hold never ends the run, wherever it stands in the input, and at the
\* end of a run every line that resolves and balances is in the ledger.
C4_PartialFailureIsolation ==
    /\ (tsbPc = "crashed" => AccountFound(tsbInput[tsbPos].transferAccount))
    /\ (tsbPc = "done" =>
          \A i \in 1..Len(tsbInput) :
             (AccountFound(tsbInput[i].transferAccount) /\ Balanced(TsbSplits(tsbInput[i])))
                => KeyIn(ledger, KeyOfLine(tsbInput[i])))

\* the ledger an uninterrupted run over the input leaves
RECURSIVE RunLines(_, _, _, _)
RunLines(book, hs, cnt, input) ==
    IF input = <<>> THEN book
    ELSE LET r == ProcessLine(book, hs, cnt, Head(input))
         IN  IF r.error # "" THEN r.book
             ELSE RunLines(r.book, r.hashString, r.importCount, Tail(input))

\* C5: crash safety of the bank-line import. After an interrupted run and a
\* re-run of the same input from its first line, every entry committed before
\* the interruption is still in the ledger, its line is reported as skipped
\* already recorded, and when the re-run ends the ledger is the one an
\* uninterrupted run over the input leaves.
C5_CrashSafety ==
    /\ \A i \in doneBefore \cup doneNow : KeyIn(ledger, KeyOfLine(tsbInput[i]))
    /\ \A i \in doneBefore :
          (i <= tsbPos /\ tsbPc # "interrupted")
             => /\ i <= Len(out)
                /\ out[i] = OutRec("Skipped already recorded", HashStringOf(tsbInput[i]))
    /\ (attempts >= 2 /\ tsbPc \in {"done", "crashed"})
          => ledger = RunLines(ledger0, Unbound, 0, tsbInput)

\* a re-run after an interruption has ended, having skipped a line committed
\* before the interruption and imported a line after it
C5_Witness ==
    /\ attempts = 2
    /\ tsbPc = "done"
    /\ doneBefore # {}
    /\ doneNow # {}
    /\ ledger0 # {}

C6_WatermarkStep ==
    /\ lastRun' # lastRun
          => /\ cardPc = "loop"
             /\ cardPos = Len(cardPage)
             /\ cardPage # <<>>
             /\ cardPc' = "done"
             /\ ledger' = ledger \cup pending
             /\ lastRun' = now
    /\ cardPc' = "crashed" => (ledger' = ledger /\ lastRun' = lastRun)

\* C6: watermark safety. last_run changes only in the step that ends a run
\* whose fetch returned a page and whose book.save() completed, and then to the
\* time of that run; a run that fails, in the fetch or later, changes neither
\* the ledger nor last_run.
C6_WatermarkSafety == [][C6_WatermarkStep]_vars

\* a fetch failed after an earlier clean run had advanced last_run
C6_Witness ==
    /\ cardPc = "crashed"
    /\ cardError \in {"APIConnectionError", "ConnectionError"}
    /\ cardPage = <<>>
    /\ lastRun > 0
    /\ ledger # {}

\* C7: loan table hit. For every amount the lookup matches, principal plus
\* interest equals the repayment amount and the three splits sum to zero.
C7_LoanTableHit ==
    \A i \in 1..tsbPos :
       (IsLoanRepayment(tsbInput[i]) /\ LoanTableHit(tsbInput[i].amount))
          => /\ Len(TsbSplits(tsbInput[i])) = 3
             /\ payableAmount(tsbInput[i].amount) + intrestAmount(tsbInput[i].amount)
                   = (-1) * tsbInput[i].amount
             /\ Balanced(TsbSplits(tsbInput[i]))

\* the amounts the loan lookup of the code matches
C8_MatchedAmounts == {-2417, -9667, -4833, -12082}

C8_IsMiss(t) ==
    /\ t.transferAccount = LoanAccountName
    /\ t.amount \notin C8_MatchedAmounts

C8_MissEntry(t) ==
    Entry(KeyOfLine(t),
          << Split(TsbAccountName, t.amount),
             Split(LoanAccountName, 0 - t.amount),
             Split(IntrestAccountName, 0) >>)

C8_Step ==
    (TsbVisits /\ C8_IsMiss(tsbInput[tsbPos + 1])
               /\ ~KeyIn(ledger, KeyOfLine(tsbInput[tsbPos + 1])))
        => /\ ledger' = ledger \cup {C8_MissEntry(tsbInput[tsbPos + 1])}
           /\ tsbPc' # "crashed"
           /\ tsbPc' = "running"
                 => /\ \E k \in (Len(log) + 1)..Len(log') :
                          log'[k] = LogRec("WARNING", "Unmatched loan repayment amount", "")
                    /\ out'[Len(out')].msg = "Imported, Total count"

\* C8 (as amended): loan table miss. A payment tagged to the loan-liability
\* account whose amount the lookup does not match (-12083 included) is
\* committed with the bank split, a principal split on the liability account
\* for the full amount and an interest split of value zero, and a warning is
\* logged.
C8_LoanTableMiss == [][C8_Step]_vars

\* C8 (as stated): a committed loan entry for an unmatched amount has no split
\* on the interest account.
C8_NoInterestSplit ==
    \A e \in ledger :
       (Len(e.splits) >= 2 /\ e.splits[2].account = LoanAccountName
           /\ e.splits[1].value \notin C8_MatchedAmounts)
          => \A k \in 1..Len(e.splits) : e.splits[k].account # IntrestAccountName

\* the -12083 repayment is committed as principal only, with the warning
C8_Witness ==
    /\ tsbPc = "running"
    /\ \E e \in ledger :
          e.splits = << Split(TsbAccountName, -12083), Split(LoanAccountName, 12083),
                        Split(IntrestAccountName, 0) >>
    /\ \E k \in 1..Len(log) : log[k].msg = "Unmatched loan repayment amount"

C9_IsRent(t) ==
    /\ t.transferAccount = F6AccountName
    /\ 0 - t.amount > 1000 + 1500

C9_RentEntry(t) ==
    Entry(KeyOfLine(t),
          << Split(TsbAccountName, t.amount),
             Split(F6AccountName, 1000),
             Split(G456AccountName, 1500),
             Split(ElectricAccountName, 0 - (t.amount + 1000 + 1500)) >>)

C9_Step ==
    (TsbVisits /\ C9_IsRent(tsbInput[tsbPos + 1])
               /\ ~KeyIn(ledger, KeyOfLine(tsbInput[tsbPos + 1])))
        => /\ ledger' = ledger \cup {C9_RentEntry(tsbInput[tsbPos + 1])}
           /\ SumValues(C9_RentEntry(tsbInput[tsbPos + 1]).splits) = 0
           /\ tsbInput[tsbPos + 1].amount = -5000
                 => EntryOf(ledger', KeyOfLine(tsbInput[tsbPos + 1])).splits[4].value = 2500

\* C9 (as amended): rent pre-split. With fixed components 1000 and 1500, a
\* line tagged to the primary rent account for more than their sum is committed
\* with four splits (bank = amount, 1000, 1500, electric = -(amount + 2500))
\* that sum to zero; for gross = -5000 the electric split is +2500.
C9_RentPreSplit == [][C9_Step]_vars

\* C9 (as stated): for gross = -5000 the electric split is -2500.
C9_ElectricMinus2500 ==
    \A e \in ledger :
       (Len(e.splits) = 4 /\ e.splits[1].value = -5000) => e.splits[4].value = -2500

\* the -5000 rent line is committed with electric = +2500
C9_Witness ==
    \E e \in ledger :
       e.splits = << Split(TsbAccountName, -5000), Split(F6AccountName, 1000),
                     Split(G456AccountName, 1500), Split(ElectricAccountName, 2500) >>

\* The minimum membership amount of the specification; the importers have no
\* such value.
MembershipThreshold == 1500

\* C10: membership threshold boundary. A committed payment tagged to the
\* membership-income account has two splits at the threshold, three splits
\* with a donation of amount - threshold one unit above it, and goes entirely
\* to donations one unit below it.
C10_MembershipThreshold ==
    \A i \in 1..tsbPos :
       LET t == tsbInput[i]
           e == EntryOf(ledger, KeyOfLine(t))
       IN  (t.transferAccount = MembershipAccountName /\ KeyIn(ledger, KeyOfLine(t)))
              => /\ t.amount = MembershipThreshold => Len(e.splits) = 2
                 /\ t.amount = MembershipThreshold + 1
                       => /\ Len(e.splits) = 3
                          /\ \E k \in 1..Len(e.splits) :
                                e.splits[k] = Split(DonationsIncomeAccountName, -1)
                 /\ t.amount = MembershipThreshold - 1
                       => e.splits = << Split(TsbAccountName, t.amount),
                                        Split(DonationsIncomeAccountName, 0 - t.amount) >>

\* the number of the fields date, description and amount in which two lines differ
C11_FieldsChanged(t, u) ==
    (IF t.date = u.date THEN 0 ELSE 1)
      + (IF t.description = u.description THEN 0 ELSE 1)
      + (IF t.amount = u.amount THEN 0 ELSE 1)

\* the keys the ledger holds
C11_Keys(book) == {e.num : e \in book}

C11_Step ==
    (TsbVisits /\ tsbPos = 1 /\ attempts = 1 /\ ledger0 = {} /\ Cardinality(ledger) = 1
               /\ tsbInput'[2].transferAccount \in accounts /\ tsbError' = "")
        => LET t == tsbInput'[2]
               u == tsbInput[1]
               key == Sha256Hex(hashString')
           IN  /\ C11_FieldsChanged(t, u) = 0 => key \in C11_Keys(ledger)
               /\ C11_FieldsChanged(t, u) = 1 => key \notin C11_Keys(ledger)
               /\ key \in C11_Keys(ledger')

\* C11: key derivation stability. When the ledger holds exactly the entry of
\* the first line of the input, a second line with the same (date, description,
\* amount) derives the key of that entry, whatever its transferAccount, and a
\* second line that differs from the first in exactly one of the three fields
\* derives a key the ledger does not hold.
C11_KeyDerivationStability == [][C11_Step]_vars

\* a line with the date, description and amount of a committed line but another
\* transferAccount was skipped as already recorded
C11_Witness ==
    /\ source = "tsb"
    /\ tsbPos = 2
    /\ C11_FieldsChanged(tsbInput[1], tsbInput[2]) = 0
    /\ tsbInput[1].transferAccount # tsbInput[2].transferAccount
    /\ Cardinality(ledger) = 1
    /\ out = << OutRec("Imported, Total count", "1"),
                OutRec("Skipped already recorded", hashString) >>

\* the transactions of the fetched page the loop has visited
CardVisited == {cardPage[i] : i \in 1..cardPos}

\* the entries created for a visited transaction, saved or in the session
CardEntries(tx) == {e \in ledger \cup pending : e.num = tx.id}

\* rules 1, 2 and the default, first match wins
C12_RouteByRules(tx) ==
    IF tx.tag # "" /\ Upper(tx.tag) = "SNACKSPACE" THEN SnackspaceIncomeAccountName
    ELSE IF tx.descriptor = "Snackspace" \/ tx.suffix = "Snackspace"
    THEN SnackspaceIncomeAccountName
    ELSE DonationsIncomeAccountName

\* C12: router precedence for a card charge. The income split of every entry
\* created for a charge is on the account the rules give, first match wins: a
\* recognized type tag (case-insensitive), otherwise a known statement
\* descriptor or suffix, otherwise donations; a charge with an unrecognized
\* tag and descriptor 'Snackspace' goes to the Snackspace income account.
C12_RouterPrecedence ==
    source = "stripe" =>
       \A tx \in CardVisited : \A e \in CardEntries(tx) :
          tx.type = "charge" => e.splits[2].account = C12_RouteByRules(tx)

\* C13: adjustment and refund routing. The second split of every entry
\* created for a refund or for an adjustment with negative net is on the
\* miscellaneous-expense account, and that of an adjustment with positive net
\* is on the account rules 1 and 2 give for its originating charge (Snackspace
\* when the charge's descriptor is 'Snackspace').
C13_AdjustmentRefundRouting ==
    \A tx \in CardVisited : \A e \in CardEntries(tx) :
       /\ tx.type \in {"refund", "REFUND"}
             => e.splits[2].account = MiscellaneousExpenseAccountName
       /\ (tx.type = "adjustment" /\ tx.net < 0)
             => e.splits[2].account = MiscellaneousExpenseAccountName
       /\ (tx.type = "adjustment" /\ tx.net > 0)
             => e.splits[2].account = C12_RouteByRules(tx)

C14_Step ==
    (TsbVisits /\ tsbInput'[tsbPos + 1].transferAccount \notin accounts)
        => /\ ledger' = ledger
           /\ accounts' = accounts
           /\ importCount' = importCount
           /\ \E k \in (Len(log) + 1)..Len(log') :
                 log'[k] = LogRec("WARNING", "Unable to find Account",
                                  tsbInput'[tsbPos + 1].transferAccount)
           /\ \A k \in (Len(out) + 1)..Len(out') : out'[k].msg # "Imported, Total count"

\* C14: unresolvable account. Visiting a bank line whose transferAccount is not
\* an account of the book logs the warning naming that account and leaves the
\* book as it was: no entry is added, no account is added, importCount keeps
\* its value and no imported status is printed.
C14_UnresolvableAccountFrame == [][C14_Step]_vars

\* after a committed line, a line naming a missing account was passed over and
\* the run goes on
C14_Witness ==
    /\ tsbPc = "running"
    /\ tsbPos = 2
    /\ tsbInput[2].transferAccount \notin accounts
    /\ importCount = 1
    /\ Cardinality(ledger) = 1
    /\ log[Len(log)] = LogRec("WARNING", "Unable to find Account", tsbInput[2].transferAccount)

\* the status strings the importer prints
C15_StatusMessages ==
    {"Imported, Total count", "Skipped already recorded",
     "Transaction not imported: Unable to find Account"}

\* C15: one status string per line. In a run that was not killed, the lines
\* read so far have each produced exactly one status string on standard
\* output, whichever outcome the line had: the output holds as many status
\* strings as lines were read.
C15_OneStatusPerLine ==
    (source = "tsb" /\ tsbPc \in {"running", "done", "crashed"})
        => /\ Len(out) = tsbPos
           /\ \A k \in 1..Len(out) : out[k].msg \in C15_StatusMessages

\* the (date, description, amount) string that identifies a line
C16_TextOf(t) == t.date \o ":" \o t.description \o ";" \o IntToStr(t.amount)

\* C16: outcomes identify their own line. The k-th status string is the
\* outcome of the k-th line of the input, and when it reports a skipped or an
\* unresolvable-account outcome the (date, description, amount) string in it
\* is the one of that line.
C16_OutcomeNamesOwnLine ==
    \A k \in 1..Len(out) :
       out[k].msg \in {"Skipped already recorded",
                       "Transaction not imported: Unable to find Account"}
          => out[k].arg = C16_TextOf(tsbInput[k])

C17_Step ==
    (TsbVisits /\ KeyIn(ledger, KeyOfLine(tsbInput'[tsbPos + 1])))
        => /\ tsbPc' = "running"
           /\ out' = Append(out, OutRec("Skipped already recorded",
                                        C16_TextOf(tsbInput'[tsbPos + 1])))
           /\ \A k \in (Len(log) + 1)..Len(log') : log'[k].msg # "Unable to find Account"

\* C17: the already-recorded check comes before account routing. A bank line
\* whose derived key is already in the ledger always ends in the skipped
\* already recorded outcome, without an account lookup failure, also when its
\* transferAccount is not an account of the book.
C17_DedupBeforeRouting == [][C17_Step]_vars

\* the net amount and the source account of a visited card or POS record
C18_Net(tx) == IF source = "stripe" THEN tx.net ELSE tx.events[1].amount

C18_SourceAccount == IF source = "stripe" THEN StripeAccountName ELSE SumUpAccountName

\* C18: two-split transfer for refunds. Every entry created for a Stripe or
\* SumUp refund, also one whose fee is not zero, has exactly two splits, net on
\* the source account and -net on the destination account.
C18_RefundTwoSplits ==
    \A tx \in CardVisited : \A e \in CardEntries(tx) :
       tx.type \in {"refund", "REFUND"}
          => /\ Len(e.splits) = 2
             /\ e.splits[1] = Split(C18_SourceAccount, C18_Net(tx))
             /\ e.splits[2].value = 0 - C18_Net(tx)

\* the processor's transactions of the feed this behaviour follows
C19_Catalogue == IF source = "stripe" THEN StripeCatalogue ELSE SumUpCatalogue

\* the step is the list request of a run, and it returned
C19_Fetches == cardPc # "loop" /\ cardPc' \in {"loop", "empty"} /\ now' = now

C19_FetchStep ==
    C19_Fetches
        => LET lower == lastRun - OneDay
               page == {cardPage'[i] : i \in 1..Len(cardPage')}
           IN  /\ \A tx \in page : tx.created >= lower /\ tx.created <= now
               /\ Len(cardPage') < PageLimit
                     => \A i \in 1..Len(C19_Catalogue) :
                           LET tx == C19_Catalogue[i]
                           IN  (tx.created > lower /\ tx.created <= now) => tx \in page

C19_FinishStep == (cardPc = "loop" /\ cardPc' = "done") => lastRun' = now

C19_RefetchStep ==
    (CardVisits /\ KeyIn(ledger, cardPage[cardPos + 1].id))
        => /\ ledger' = ledger
           /\ pending' = pending
           /\ log' = Append(log, LogRec("INFO", "Skipped already recorded",
                                        cardPage[cardPos + 1].id))

C20_Unclassifiable(tx) ==
    IF source = "stripe"
    THEN tx.type \notin {"charge", "adjustment", "refund"}
    ELSE \/ tx.status # "SUCCESSFUL"
         \/ Len(tx.events) # 1
         \/ tx.type \notin {"PAYMENT", "CHARGE_BACK", "REFUND"}

C20_SkipLogs ==
    {"Skipped Payout", "Skipped Unknown type", "Skipped Failed", "Skipped no events for",
     "Skipped more than one event for"}

C20_NoEntry ==
    source \in {"stripe", "sumup"}
        => \A i \in 1..Len(cardPage) :
              C20_Unclassifiable(cardPage[i])
                 => \A e \in ledger \cup pending : e.num # cardPage[i].id

\* the visit is not ended by a failure of the request for the full transaction
C20_Step ==
    (CardVisits /\ C20_Unclassifiable(cardPage[cardPos + 1])
                /\ cardError' \notin {"ConnectionError", "APIConnectionError"})
        => /\ ledger' = ledger
           /\ pending' = pending
           /\ Len(log') = Len(log) + 1
           /\ log'[Len(log')].msg \in C20_SkipLogs
           /\ log'[Len(log')].arg = cardPage[cardPos + 1].id
           /\ cardError' = ""
           /\ cardPc' = "loop"
           /\ cardPage' = cardPage

\* C20: unclassifiable transactions do not stop the batch. A Stripe payout, a
\* Stripe or SumUp record of unknown type, a SumUp record that is not
\* SUCCESSFUL and a SumUp record with no or several events never get an
\* entry; visiting one logs the skip, raises nothing and leaves the loop
\* running on the same page, so the later transactions and the final save
\* follow.
C20_UnclassifiableSkipped == []C20_NoEntry /\ [][C20_Step]_vars

\* a run skipped an unclassifiable record, booked a later one of the same page,
\* saved and set last_run
C20_Witness ==
    /\ cardPc = "done"
    /\ lastRun = now
    /\ \E k1, k2 \in 1..Len(log) :
          /\ k1 < k2
          /\ log[k1].msg \in C20_SkipLogs
          /\ log[k2].msg \in {"Saved charge", "Saved adjustment", "Saved refund"}
          /\ \E e \in ledger : e.num = log[k2].arg

C21_Step ==
    /\ ledger \subseteq ledger'
    /\ \A e \in ledger' \ ledger : ~KeyIn(ledger, e.num)

\* C21: the ledger is append-only for the importers. No step of any run
\* removes or changes a committed entry, and every entry a step adds has a
\* key the ledger did not hold before.
C21_AppendOnly == [][C21_Step]_vars

\* a later run over a new input added an entry next to those of an earlier run
C21_Witness ==
    /\ source = "tsb"
    /\ attempts = 1
    /\ ledger0 # {}
    /\ ledger0 \subseteq ledger
    /\ ledger # ledger0
    /\ importCount = 1

\* an account with the accounts below it
C22_Tree(name) ==
    {name} \cup Children(name) \cup UNION {Children(c) : c \in Children(name)}

\* the activity of a set of accounts in a period: the values of their splits
\* posted after start and on or before end
C22_Activity(book, names, start, end) ==
    LET posted == {e \in book : ~DateLE(e.post_date, start) /\ DateLE(e.post_date, end)}
        onNames == [e \in posted |->
                       SumValues(SelectSeq(e.splits, LAMBDA sp : sp.account \in names))]
    IN  SumOver(onNames, posted)

\* the delta of an account between the month ends of the report, in the
\* account's natural sign
C22_Delta(name, recurse) ==
    (IF IsIncomeAccount(name) THEN -1 ELSE 1)
      * C22_Activity(ledger, IF recurse THEN C22_Tree(name) ELSE {name},
                     endOfPerviousMonth(endDate), endOfMonth(endDate))

C22_Values ==
    /\ reportPc = "vat"
          => \A name \in DOMAIN reportOut.income_amounts :
                reportOut.income_amounts[name] = formatGBP(C22_Delta(name, FALSE))
    /\ reportPc = "wiki"
          => /\ reportOut.totalRevenue = wikiFormatGBP(C22_Delta(IncomeAccountName, TRUE))
             /\ reportOut.totalExpenses = wikiFormatGBP(C22_Delta(ExpensesAccountName, TRUE))
             /\ \A name \in DOMAIN reportOut.income :
                   reportOut.income[name].amount = wikiFormatGBP(C22_Delta(name, FALSE))

\* C22: balance delta. Every delta a report shows is the account's balance at
\* the end date minus its balance at the start date, that is the account's
\* activity in between, of the account alone when recurse is False and of the
\* account with those below it when recurse is True; and a report leaves the
\* ledger and the accounts as they are.
C22_BalanceDelta == []C22_Values /\ [][ledger' = ledger /\ accounts' = accounts]_vars

\* the wiki report ran on a book where the Income account and an account below
\* it both have activity in the month, and one has activity before it
C22_Witness ==
    /\ reportPc = "wiki"
    /\ endDate = Date(2024, 3, 15)
    /\ {e.num : e \in ledger} = {"r1", "r2", "r6"}
    /\ reportOut.totalRevenue = wikiFormatGBP(1200)
    /\ reportOut.income[SnackspaceIncomeAccountName].amount = wikiFormatGBP(1000)

\* the delta of an account over the rolling twelve months of the VAT period
C23_VatDelta(name) ==
    (IF IsIncomeAccount(name) THEN -1 ELSE 1)
      * C22_Activity(ledger, {name}, vatPeriodStart(endDate), vatPeriodEnd(endDate))

\* C23: the VAT CSV. For each income account the CSV shows the balance at the
\* VAT period end (the end of the requested month) minus the balance at the VAT
\* period start (the day before the first day of the same month one year
\* earlier).
C23_VatWindow ==
    reportPc = "vat"
        => /\ DOMAIN reportOut.income_amounts = {a \in accounts : IsIncomeAccount(a)}
           /\ \A name \in DOMAIN reportOut.income_amounts :
                 reportOut.income_amounts[name] = formatGBP(C23_VatDelta(name))

C24_IsChargeBack(tx) ==
    /\ source = "sumup"
    /\ tx.type = "CHARGE_BACK"
    /\ tx.status = "SUCCESSFUL"
    /\ Len(tx.events) = 1

C24_Step ==
    (CardVisits /\ C24_IsChargeBack(cardPage[cardPos + 1])
                /\ ~KeyIn(ledger, cardPage[cardPos + 1].id)
                /\ cardError' # "ConnectionError")
        => LET tx == cardPage[cardPos + 1]
           IN  /\ \E e \in pending' :
                     /\ e.num = tx.id
                     /\ Len(e.splits) = 3
                     /\ e.splits[1] = Split(SumUpAccountName, tx.events[1].amount)
                     /\ e.splits[2].value = 0 - tx.amount
                     /\ e.splits[3] = Split(FeeExpenseAccountName, tx.events[1].fee_amount)
               /\ Len(log') = Len(log) + 1
               /\ log'[Len(log')].arg = tx.id
               /\ cardError' = ""
               /\ cardPc' = "loop"

\* C24: SumUp charge-back. Visiting a successful CHARGE_BACK with exactly one
\* event creates the three-split entry (SumUp account: net, target account:
\* -amount, fee account: fee), logs it, raises nothing and leaves the loop
\* running, so the rest of the page, the save and the last_run update follow.
C24_ChargeBackCommitted == [][C24_Step]_vars

C25_Importable(tx) == tx.type \in {"charge", "adjustment", "refund"}

\* the step ends a Stripe run with an exception
C25_Fails == source = "stripe" /\ cardPc = "loop" /\ cardPc' = "crashed"

\* the step ends a Stripe run after the save
C25_Completes == source = "stripe" /\ cardPc = "loop" /\ cardPc' = "done"

\* the step is the list request of the Stripe run that follows a failed one
C25_Retries ==
    /\ source = "stripe"
    /\ cardPc = "crashed"
    /\ cardPc' \in {"loop", "empty"}
    /\ now' = now

C25_Step ==
    /\ (source = "stripe" /\ CardVisits) => ledger' = ledger
    /\ C25_Fails => (ledger' = ledger /\ lastRun' = lastRun /\ pending' = {})
    /\ C25_Completes
          => /\ ledger' = ledger \cup pending
             /\ \A i \in 1..Len(cardPage) :
                   C25_Importable(cardPage[i]) => KeyIn(ledger', cardPage[i].id)
    /\ (C25_Retries /\ Len(cardPage') < PageLimit)
          => \A i \in 1..Len(cardPage) : \E j \in 1..Len(cardPage') : cardPage'[j] = cardPage[i]

C26_NoPermanentMiss ==
    source = "stripe"
        => \A i \in 1..Len(StripeCatalogue) :
              LET tx == StripeCatalogue[i]
              IN  (tx.type \in {"charge", "adjustment", "refund"}
                     /\ tx.created <= now /\ tx.created <= lastRun - OneDay)
                    => KeyIn(ledger, tx.id)

\* C27: the hashed string is injective. Two lines of the input that differ in
\* one or more of date, description and amount never give the same string or
\* the same key, and in a first run on an empty ledger a line is skipped as
\* already recorded only when a line with the same three fields came before it.
C27_HashStringInjective ==
    /\ \A i, j \in 1..tsbPos :
          C11_FieldsChanged(tsbInput[i], tsbInput[j]) >= 1
             => /\ HashStringOf(tsbInput[i]) # HashStringOf(tsbInput[j])
                /\ KeyOfLine(tsbInput[i]) # KeyOfLine(tsbInput[j])
    /\ (attempts = 1 /\ ledger0 = {})
          => \A j \in 1..Len(out) :
                out[j].msg = "Skipped already recorded"
                   => \E i \in 1..(j - 1) :
                         C11_FieldsChanged(tsbInput[i], tsbInput[j]) = 0

\* line i is the first line of the input with its date, description and amount
C28_IsFirst(i) ==
    \A k \in 1..(i - 1) : C11_FieldsChanged(tsbInput[k], tsbInput[i]) # 0

\* C28: equal lines give one entry. In a first run on an empty ledger that was
\* neither killed nor ended by an exception, of two lines with equal date,
\* description and amount, whatever their transferAccount, the first is
\* committed and reported as imported, the ledger holds exactly one entry with
\* their key, and the second is reported as skipped already recorded.
C28_EqualLinesOneEntry ==
    (source = "tsb" /\ attempts = 1 /\ ledger0 = {} /\ tsbPc \in {"running", "done"})
        => \A i, j \in 1..tsbPos :
              (i < j /\ C28_IsFirst(i)
                     /\ C11_FieldsChanged(tsbInput[i], tsbInput[j]) = 0)
                 => /\ Cardinality({e \in ledger : e.num = KeyOfLine(tsbInput[i])}) = 1
                    /\ out[i].msg = "Imported, Total count"
                    /\ out[j] = OutRec("Skipped already recorded", C16_TextOf(tsbInput[j]))

\* the step is a list request that returned no transaction
C29_FetchesNothing ==
    /\ source \in {"stripe", "sumup"}
    /\ cardPc # "loop"
    /\ cardPc' = "empty"
    /\ log' # log

C29_Step ==
    /\ C29_FetchesNothing
          => /\ cardPage' = <<>>
             /\ lastRun' = lastRun
             /\ ledger' = ledger
             /\ pending' = {}
             /\ log'[Len(log')] = LogRec("INFO", "No transactions to import", "")
    /\ cardPc = "empty" => (cardPc' # "done" /\ cardPos' = cardPos)
    /\ lastRun' # lastRun => (cardPc = "loop" /\ Len(cardPage) >= 1)

\* C29: empty fetch. A Stripe or SumUp run whose list request returns no
\* transaction ends there: the book is not opened, nothing is visited or saved
\* and last_run keeps its value, so the next run asks from the same lower
\* bound; last_run changes only at the end of a run whose page held one or
\* more transactions.
C29_EmptyFetch == [][C29_Step]_vars

\* a run found nothing to import at a time after the installed last_run
C29_Witness ==
    /\ cardPc = "empty"
    /\ cardPage = <<>>
    /\ now > lastRun
    /\ lastRun = InstalledLastRun
    /\ log = << LogRec("INFO", "Fetched transactions", "0"),
                LogRec("INFO", "No transactions to import", "") >>

\* the positions of out that hold an "Imported, Total count" status
C30_Imported == {i \in 1..Len(out) : out[i].msg = "Imported, Total count"}

\* the numbers importCount can hold when doneNow lines are saved: a run killed
\* right after book.save() has saved one line more than it counted
C30_Committed ==
    IF tsbPc = "interrupted"
    THEN {Cardinality(doneNow) - 1, Cardinality(doneNow)}
    ELSE {Cardinality(doneNow)}

C30_Counts ==
    source = "tsb" =>
        /\ \A i \in C30_Imported :
              out[i].arg = IntToStr(Cardinality({k \in C30_Imported : k <= i}))
        /\ importCount = Cardinality(C30_Imported)
        /\ importCount \in C30_Committed
        /\ \A i \in doneNow : KeyIn(ledger, KeyOfLine(tsbInput[i]))
        /\ tsbPos = 0 => importCount = 0

C30_Step ==
    (tsbPc = "running" /\ tsbPos' = tsbPos + 1)
        => LET grown == ledger' # ledger
               printed == Len(out') > Len(out)
                          /\ out'[Len(out')].msg = "Imported, Total count"
           IN  /\ importCount' \in {importCount, importCount + 1}
               /\ importCount' = importCount + 1 => (grown /\ printed)
               /\ (grown /\ tsbPc' # "interrupted") => importCount' = importCount + 1
               /\ printed => out'[Len(out')].arg = IntToStr(Cardinality(doneNow'))

\* C30: the count of a TSB run. importCount is 0 when the run starts and grows
\* by one exactly on a line whose entry was saved; a skipped line, a line whose
\* account does not resolve and a line whose save raised leave it as it was.
\* The n of each "Imported, Total count: n" status is the number of entries the
\* run has committed and saved up to and including that line.
C30_ImportCount == []C30_Counts /\ [][C30_Step]_vars

\* a run committed a line, then skipped a line or could not resolve its account,
\* then committed a second line under the count 2
C30_Witness ==
    /\ source = "tsb"
    /\ importCount = 2
    /\ Len(out) = 3
    /\ out[1] = OutRec("Imported, Total count", "1")
    /\ out[2].msg \in {"Skipped already recorded",
                       "Transaction not imported: Unable to find Account"}
    /\ out[3] = OutRec("Imported, Total count", "2")
    /\ Cardinality(ledger) = Cardinality(ledger0) + 2

====
